---- MODULE Spec2Model ----
(***************************************************************************)
(* Model of test-listener/tinyd_listen.py: listen_udp_and_write.           *)
(*                                                                         *)
(*   with socket.socket(...) as s, open(OUTPUT_FILE, 'a') as f:            *)
(*       s.bind((HOST, PORT))                                              *)
(*       while True:                                                       *)
(*           data, addr = s.recvfrom(65535)                                *)
(*           try:                                                          *)
(*               obj = json.loads(data.decode())                           *)
(*               json_line = json.dumps(obj)                               *)
(*               f.write(json_line + '\n')                                 *)
(*               f.flush()                                                 *)
(*               print(...)                                                *)
(*           except json.JSONDecodeError as e:                             *)
(*               print(...)                                                *)
(*                                                                         *)
(* A datagram is a sequence of bytes (integers).  data.decode() turns      *)
(* bytes into characters, json.loads parses characters into a value,       *)
(* json.dumps prints a value as characters, and the text file encodes      *)
(* characters back into bytes.  The grammar modelled is the fragment of    *)
(* json.loads' language built from arrays, unsigned integers and           *)
(* whitespace.                                                             *)
(*                                                                         *)
(* The text file f is a user-space buffer (buf) in front of the bytes this *)
(* process has appended to metrics.out (disk).  A flush hands the whole    *)
(* buffer to the operating system in one step or raises OSError and keeps  *)
(* the buffer; a write that raises OSError keeps nothing of its text;      *)
(* closing f flushes what is buffered and closes the handle whether or not *)
(* that flush succeeds.                                                    *)
(*                                                                         *)
(* The only asynchronous event is SIGINT, which Python raises as           *)
(* KeyboardInterrupt between two statements or inside the blocking         *)
(* recvfrom.                                                               *)
(***************************************************************************)
EXTENDS Integers, Sequences, FiniteSets, TLC

VARIABLES
    pc,          \* position of listen_udp_and_write
    sock,        \* socket s: "unopened", "open" or "closed"
    fh,          \* file f: "unopened", "open" or "closed"
    bound,       \* s.bind succeeded
    data,        \* local data: bytes of the last datagram received
    addr,        \* local addr: sender of the last datagram received
    obj,         \* local obj: the value json.loads returned last
    json_line,   \* local json_line: the text json.dumps returned last
    buf,         \* bytes written to f and not yet flushed
    disk,        \* bytes this process has appended to OUTPUT_FILE
    exc,         \* the exception propagating out of the function, or "none"
    raisedAt,    \* history: the call that raised an exception no clause caught
    sigAt,       \* history: the position at which KeyboardInterrupt was raised
    nRecv,       \* history: number of datagrams recvfrom has returned
    nRejected,   \* history: number of datagrams the except clause handled
    accepted,    \* history: the values json.loads returned, in order
    sinkBefore,  \* history: disk when the last datagram was received
    lastOutcome, \* history: what line 16 did with the last datagram received
    initLog,     \* history: the initialization steps attempted, in order
    closeLog     \* history: the handles closed, in order

vars == <<pc, sock, fh, bound, data, addr, obj, json_line, buf, disk, exc,
          raisedAt, sigAt, nRecv, nRejected, accepted, sinkBefore, lastOutcome, initLog,
          closeLog>>

locals == <<data, addr, obj, json_line>>
history == <<nRecv, nRejected, accepted, sinkBefore, lastOutcome, sigAt>>

----------------------------------------------------------------------------
(* Bounds *)

\* longest datagram, in bytes, the listener's transport delivers
MaxLen == 3
\* number of datagrams the transport delivers
MaxRecv == 2
\* longest datagram, in bytes, of the single-datagram codec specification
CodecLen == 5

\* bytes a datagram is made of: [ ] , 1 line-feed and 0xFF
WireBytes == {91, 93, 44, 49, 10, 255}
Senders == {"a1", "a2"}
NoAddr == "none"

RECURSIVE SeqsUpTo(_, _)
SeqsUpTo(S, n) ==
    IF n = 0 THEN {<<>>}
    ELSE LET shorter == SeqsUpTo(S, n - 1)
         IN  shorter \cup {Append(q, b) : q \in {x \in shorter : Len(x) = n - 1}, b \in S}

Datagrams == SeqsUpTo(WireBytes, MaxLen)
CodecDatagrams == SeqsUpTo(WireBytes, CodecLen)

----------------------------------------------------------------------------
(* bytes.decode() and the text file's encoder *)

DigitChars == <<"0", "1", "2", "3", "4", "5", "6", "7", "8", "9">>
Digits == {DigitChars[k] : k \in 1..10}
LF == "\n"
SP == " "

\* the character of an ASCII byte
Chr(b) ==
    CASE b = 10 -> LF
      [] b = 32 -> SP
      [] b = 44 -> ","
      [] b = 91 -> "["
      [] b = 93 -> "]"
      [] b \in 48..57 -> DigitChars[b - 47]
      [] OTHER -> "?"

\* the byte of a character json.dumps emits
Ord(c) ==
    CASE c = LF -> 10
      [] c = SP -> 32
      [] c = "," -> 44
      [] c = "[" -> 91
      [] c = "]" -> 93
      [] c \in Digits -> 47 + CHOOSE k \in 1..10 : DigitChars[k] = c
      [] OTHER -> 63

\* data.decode() raises UnicodeDecodeError on a byte that starts no UTF-8 sequence
Utf8Valid(bytes) == \A k \in 1..Len(bytes) : bytes[k] < 128

\* data.decode(): the text of valid bytes
Utf8Decode(bytes) == [k \in 1..Len(bytes) |-> Chr(bytes[k])]

\* f.write's encoding of text
Utf8Encode(text) == [k \in 1..Len(text) |-> Ord(text[k])]

----------------------------------------------------------------------------
(* json.loads *)

Num(n) == [t |-> "num", n |-> n, items |-> <<>>]
Arr(items) == [t |-> "arr", n |-> 0, items |-> items]
NoValue == [t |-> "none", n |-> 0, items |-> <<>>]
\* JSONDecodeError
Fail == [ok |-> FALSE, val |-> NoValue, end |-> 0]
Ok(v, e) == [ok |-> TRUE, val |-> v, end |-> e]

Whitespace == {SP, LF}

RECURSIVE SkipWs(_, _)
SkipWs(s, i) ==
    IF i <= Len(s) /\ s[i] \in Whitespace THEN SkipWs(s, i + 1) ELSE i

RECURSIVE DigitsEnd(_, _)
DigitsEnd(s, i) ==
    IF i <= Len(s) /\ s[i] \in Digits THEN DigitsEnd(s, i + 1) ELSE i

\* NUMBER_RE's integer part: 0 | [1-9][0-9]*
NumberEnd(s, i) == IF s[i] = "0" THEN i + 1 ELSE DigitsEnd(s, i)

DigitVal(c) == (CHOOSE k \in 1..10 : DigitChars[k] = c) - 1

RECURSIVE DigitsToInt(_)
DigitsToInt(s) ==
    IF Len(s) = 0 THEN 0
    ELSE 10 * DigitsToInt(SubSeq(s, 1, Len(s) - 1)) + DigitVal(s[Len(s)])

RECURSIVE ScanOnce(_, _)
RECURSIVE ParseElems(_, _, _)

\* JSONArray after the opening bracket
ParseArray(s, i) ==
    LET j == SkipWs(s, i)
    IN  IF j <= Len(s) /\ s[j] = "]" THEN Ok(Arr(<<>>), j + 1)
        ELSE ParseElems(s, j, <<>>)

ParseElems(s, i, acc) ==
    LET r == ScanOnce(s, i)
    IN  IF ~r.ok THEN Fail
        ELSE LET j == SkipWs(s, r.end)
             IN  IF j > Len(s) THEN Fail
                 ELSE IF s[j] = "]" THEN Ok(Arr(Append(acc, r.val)), j + 1)
                 ELSE IF s[j] # "," THEN Fail
                 ELSE ParseElems(s, SkipWs(s, j + 1), Append(acc, r.val))

\* scan_once: one value starting at i
ScanOnce(s, i) ==
    IF i > Len(s) THEN Fail
    ELSE IF s[i] = "[" THEN ParseArray(s, i + 1)
    ELSE IF s[i] \in Digits
         THEN LET e == NumberEnd(s, i)
              IN  Ok(Num(DigitsToInt(SubSeq(s, i, e - 1))), e)
    ELSE Fail

\* json.loads: whitespace, one value, whitespace, end of text
Loads(s) ==
    LET r == ScanOnce(s, SkipWs(s, 1))
    IN  IF ~r.ok THEN Fail
        ELSE IF SkipWs(s, r.end) # Len(s) + 1 THEN Fail
        ELSE r

----------------------------------------------------------------------------
(* json.dumps *)

RECURSIVE IntToText(_)
IntToText(n) ==
    IF n < 10 THEN <<DigitChars[n + 1]>>
    ELSE IntToText(n \div 10) \o <<DigitChars[(n % 10) + 1]>>

RECURSIVE Dumps(_)
RECURSIVE DumpItems(_)
DumpItems(items) ==
    IF Len(items) = 0 THEN <<>>
    ELSE IF Len(items) = 1 THEN Dumps(items[1])
    ELSE Dumps(items[1]) \o <<",", SP>> \o DumpItems(Tail(items))

\* json.dumps with the default separators (', ', ': ')
Dumps(v) ==
    IF v.t = "num" THEN IntToText(v.n)
    ELSE <<"[">> \o DumpItems(v.items) \o <<"]">>

----------------------------------------------------------------------------
(* Control flow of the with statement and the try statement *)

BodyPcs == {"bind", "recv", "decode", "dumps", "write", "flush", "print", "except"}
LoopPcs == BodyPcs \ {"bind"}
ExitPcs == {"exit_f", "exit_s", "terminated"}

\* with f, s: the socket's __exit__ runs first
BodyExitSocketFirst == "exit_s"

\* with s, f: the context manager whose __exit__ runs first when an exception
\* leaves the body (f, the inner one)
BodyExit == "exit_f"

\* except Exception: OSError is caught like JSONDecodeError
HandlerCatchAll(e) ==
    IF e \in {"JSONDecodeError", "OSError"} THEN "except" ELSE "exit_f"

\* try/except json.JSONDecodeError: where an exception raised in the try
\* block takes control
Handler(e) == IF e = "JSONDecodeError" THEN "except" ELSE BodyExit

\* the socket is created outside the with statement: a failed open leaves it open
InitFailExitLeak(step) ==
    CASE step = "socket" -> "terminated"
      [] step = "open" -> "terminated"
      [] step = "bind" -> "exit_f"

\* a failed bind is swallowed and the loop entered
InitFailExitIgnoreBind(step) ==
    CASE step = "socket" -> "terminated"
      [] step = "open" -> "exit_s"
      [] step = "bind" -> "recv"

\* where a failed initialization step takes control: nothing is held when
\* socket.socket() fails, only s when open() fails, s and f when bind fails
InitFailExit(step) ==
    CASE step = "socket" -> "terminated"
      [] step = "open" -> "exit_s"
      [] step = "bind" -> BodyExit

\* the except clause writes the raw datagram to f
ExceptBodyWritesRaw(b, d) == b \o d

\* the except clause only prints: what it leaves in f's buffer
ExceptBody(b, d) == b

\* the received text is written as it came
ReserializeRaw(o, raw) == raw

\* json_line = json.dumps(obj)
Reserialize(o, raw) == Dumps(o)

\* f.write(json_line): the line feed is forgotten
LineBytesNoNewline(text) == Utf8Encode(text)

\* the bytes of f.write(json_line + '\n')
LineBytes(text) == Utf8Encode(text \o <<LF>>)

\* the line is written twice
WriteBufTwice(b, line) == b \o line \o line

\* f.write: the buffer after the bytes are written
WriteBuf(b, line) == b \o line

\* f.flush() is missing: the bytes stay in the buffer
FlushedNothing(d, b) == [disk |-> d, buf |-> b]

\* f.flush(): the buffer goes to the file
Flushed(d, b) == [disk |-> d \o b, buf |-> <<>>]

\* an exception e raised by step `at` inside the try block
Raise(e, at) ==
    /\ pc' = Handler(e)
    /\ exc' = IF Handler(e) = "except" THEN "none" ELSE e
    /\ raisedAt' = IF e = "JSONDecodeError" THEN raisedAt ELSE at

\* data, addr, obj and json_line are assigned anew before the next iteration
\* reads them, and are released with the frame when the function is left
DropLocals ==
    /\ data' = <<>>
    /\ addr' = NoAddr
    /\ obj' = NoValue
    /\ json_line' = <<>>

Locals(next) == IF next = "terminated" THEN DropLocals ELSE UNCHANGED locals

----------------------------------------------------------------------------
(* Initialization: lines 9-11 *)

Init ==
    /\ pc = "socket"
    /\ sock = "unopened"
    /\ fh = "unopened"
    /\ bound = FALSE
    /\ data = <<>>
    /\ addr = NoAddr
    /\ obj = NoValue
    /\ json_line = <<>>
    /\ buf = <<>>
    /\ disk = <<>>
    /\ exc = "none"
    /\ raisedAt = "none"
    /\ sigAt = "none"
    /\ nRecv = 0
    /\ nRejected = 0
    /\ accepted = <<>>
    /\ sinkBefore = <<>>
    /\ lastOutcome = "none"
    /\ initLog = <<>>
    /\ closeLog = <<>>

\* socket.socket(AF_INET, SOCK_DGRAM) returns
SocketOk ==
    /\ pc = "socket"
    /\ sock' = "open"
    /\ initLog' = Append(initLog, "socket")
    /\ pc' = "open"
    /\ UNCHANGED <<fh, bound, locals, buf, disk, exc, raisedAt, history, closeLog>>

\* socket.socket raises OSError
SocketFail ==
    /\ pc = "socket"
    /\ initLog' = Append(initLog, "socket")
    /\ exc' = "OSError"
    /\ raisedAt' = "socket"
    /\ pc' = InitFailExit("socket")
    /\ UNCHANGED <<sock, fh, bound, locals, buf, disk, history, closeLog>>

\* open(OUTPUT_FILE, 'a') returns
OpenOk ==
    /\ pc = "open"
    /\ fh' = "open"
    /\ initLog' = Append(initLog, "open")
    /\ pc' = "bind"
    /\ UNCHANGED <<sock, bound, locals, buf, disk, exc, raisedAt, history, closeLog>>

\* open raises OSError
OpenFail ==
    /\ pc = "open"
    /\ initLog' = Append(initLog, "open")
    /\ exc' = "OSError"
    /\ raisedAt' = "open"
    /\ pc' = InitFailExit("open")
    /\ UNCHANGED <<sock, fh, bound, locals, buf, disk, history, closeLog>>

\* s.bind((HOST, PORT)) returns; the banner is printed
BindOk ==
    /\ pc = "bind"
    /\ bound' = TRUE
    /\ initLog' = Append(initLog, "bind")
    /\ pc' = "recv"
    /\ UNCHANGED <<sock, fh, locals, buf, disk, exc, raisedAt, history, closeLog>>

\* s.bind raises OSError
BindFail ==
    /\ pc = "bind"
    /\ initLog' = Append(initLog, "bind")
    /\ exc' = "OSError"
    /\ raisedAt' = "bind"
    /\ pc' = InitFailExit("bind")
    /\ UNCHANGED <<sock, fh, bound, locals, buf, disk, history, closeLog>>

----------------------------------------------------------------------------
(* The loop: lines 13-22 *)

\* data, addr = s.recvfrom(65535) returns a datagram of `from`
RecvFrom(from, limit) ==
    /\ pc = "recv"
    /\ nRecv < limit
    /\ \E d \in from, a \in Senders :
          /\ data' = d
          /\ addr' = a
    /\ nRecv' = nRecv + 1
    /\ sinkBefore' = disk
    /\ lastOutcome' = "pending"
    /\ pc' = "decode"
    /\ UNCHANGED <<sock, fh, bound, obj, json_line, buf, disk, exc, raisedAt,
                   nRejected, accepted, sigAt, initLog, closeLog>>

Recv == RecvFrom(Datagrams, MaxRecv)

\* s.recvfrom raises OSError, outside the try statement
RecvFail ==
    /\ pc = "recv"
    /\ exc' = "OSError"
    /\ raisedAt' = "recv"
    /\ pc' = BodyExit
    /\ UNCHANGED <<sock, fh, bound, locals, buf, disk, history, initLog, closeLog>>

\* obj = json.loads(data.decode()) raises UnicodeDecodeError
DecodeUnicodeError ==
    /\ pc = "decode"
    /\ ~Utf8Valid(data)
    /\ Raise("UnicodeDecodeError", "decode")
    /\ lastOutcome' = "undecodable"
    /\ UNCHANGED <<sock, fh, bound, locals, buf, disk, nRecv, nRejected, accepted,
                   sinkBefore, sigAt, initLog, closeLog>>

\* obj = json.loads(data.decode()) raises JSONDecodeError
DecodeJSONError ==
    /\ pc = "decode"
    /\ Utf8Valid(data)
    /\ ~Loads(Utf8Decode(data)).ok
    /\ Raise("JSONDecodeError", "decode")
    /\ lastOutcome' = "rejected"
    /\ UNCHANGED <<sock, fh, bound, locals, buf, disk, nRecv, nRejected, accepted,
                   sinkBefore, sigAt, initLog, closeLog>>

\* obj = json.loads(data.decode()) returns
DecodeOk ==
    /\ pc = "decode"
    /\ Utf8Valid(data)
    /\ Loads(Utf8Decode(data)).ok
    /\ obj' = Loads(Utf8Decode(data)).val
    /\ accepted' = Append(accepted, Loads(Utf8Decode(data)).val)
    /\ lastOutcome' = "accepted"
    /\ pc' = "dumps"
    /\ UNCHANGED <<sock, fh, bound, data, addr, json_line, buf, disk, exc, raisedAt,
                   nRecv, nRejected, sinkBefore, sigAt, initLog, closeLog>>

\* json_line = json.dumps(obj)
Serialize ==
    /\ pc = "dumps"
    /\ json_line' = Reserialize(obj, Utf8Decode(data))
    /\ pc' = "write"
    /\ UNCHANGED <<sock, fh, bound, data, addr, obj, buf, disk, exc, raisedAt,
                   history, initLog, closeLog>>

\* f.write(json_line + '\n') returns
WriteOk ==
    /\ pc = "write"
    /\ buf' = WriteBuf(buf, LineBytes(json_line))
    /\ pc' = "flush"
    /\ UNCHANGED <<sock, fh, bound, locals, disk, exc, raisedAt, history, initLog, closeLog>>

\* f.write raises OSError; the text it was given is not kept
WriteFail ==
    /\ pc = "write"
    /\ Raise("OSError", "write")
    /\ UNCHANGED <<sock, fh, bound, locals, buf, disk, history, initLog, closeLog>>

\* f.flush() returns
FlushOk ==
    /\ pc = "flush"
    /\ disk' = Flushed(disk, buf).disk
    /\ buf' = Flushed(disk, buf).buf
    /\ pc' = "print"
    /\ UNCHANGED <<sock, fh, bound, locals, exc, raisedAt, history, initLog, closeLog>>

\* f.flush() raises OSError; the buffer keeps the bytes
FlushFail ==
    /\ pc = "flush"
    /\ Raise("OSError", "flush")
    /\ UNCHANGED <<sock, fh, bound, locals, buf, disk, history, initLog, closeLog>>

\* print(f"Received and wrote JSON from {addr}")
PrintOk ==
    /\ pc = "print"
    /\ pc' = "recv"
    /\ DropLocals
    /\ UNCHANGED <<sock, fh, bound, buf, disk, exc, raisedAt, history, initLog, closeLog>>

\* except json.JSONDecodeError as e: print(f"Invalid JSON from {addr}: {e}")
Except ==
    /\ pc = "except"
    /\ buf' = ExceptBody(buf, data)
    /\ nRejected' = nRejected + 1
    /\ pc' = "recv"
    /\ DropLocals
    /\ UNCHANGED <<sock, fh, bound, disk, exc, raisedAt, nRecv, accepted,
                   sinkBefore, lastOutcome, sigAt, initLog, closeLog>>

----------------------------------------------------------------------------
(* Leaving the with statement, and SIGINT *)

\* f.__exit__: close() flushes the buffer, and closes f even when that fails
ExitF ==
    /\ pc = "exit_f"
    /\ fh' = "closed"
    /\ closeLog' = Append(closeLog, "f")
    /\ \E flushed \in BOOLEAN :
          /\ buf = <<>> => flushed
          /\ disk' = IF flushed THEN disk \o buf ELSE disk
          /\ exc' = IF flushed THEN exc ELSE "OSError"
    /\ buf' = <<>>
    /\ pc' = IF sock = "open" THEN "exit_s" ELSE "terminated"
    /\ Locals(IF sock = "open" THEN "exit_s" ELSE "terminated")
    /\ UNCHANGED <<sock, bound, raisedAt, history, initLog>>

\* s.__exit__: close()
ExitS ==
    /\ pc = "exit_s"
    /\ sock' = "closed"
    /\ closeLog' = Append(closeLog, "s")
    /\ pc' = IF fh = "open" THEN "exit_f" ELSE "terminated"
    /\ Locals(IF fh = "open" THEN "exit_f" ELSE "terminated")
    /\ UNCHANGED <<fh, bound, buf, disk, exc, raisedAt, history, initLog>>

\* KeyboardInterrupt raised in the with body (in recvfrom or between statements)
InterruptBody ==
    /\ pc \in BodyPcs
    /\ exc' = "KeyboardInterrupt"
    /\ sigAt' = pc
    /\ pc' = BodyExit
    /\ UNCHANGED <<sock, fh, bound, locals, buf, disk, raisedAt, nRecv, nRejected,
                   accepted, sinkBefore, lastOutcome, initLog, closeLog>>

\* KeyboardInterrupt raised before the body is entered
InterruptInit ==
    /\ pc \in {"socket", "open"}
    /\ exc' = "KeyboardInterrupt"
    /\ sigAt' = pc
    /\ pc' = IF pc = "socket" THEN "terminated" ELSE "exit_s"
    /\ UNCHANGED <<sock, fh, bound, locals, buf, disk, raisedAt, nRecv, nRejected,
                   accepted, sinkBefore, lastOutcome, initLog, closeLog>>

Next ==
    \/ SocketOk \/ SocketFail \/ OpenOk \/ OpenFail \/ BindOk \/ BindFail
    \/ Recv \/ RecvFail
    \/ DecodeUnicodeError \/ DecodeJSONError \/ DecodeOk
    \/ Serialize \/ WriteOk \/ WriteFail \/ FlushOk \/ FlushFail \/ PrintOk \/ Except
    \/ ExitF \/ ExitS \/ InterruptBody \/ InterruptInit

Spec == Init /\ [][Next]_vars

----------------------------------------------------------------------------
(* One datagram of up to CodecLen bytes through decode, loads, dumps, write *)
(* and flush, from the state the listener is in once it listens             *)

CodecInit ==
    /\ pc = "recv"
    /\ sock = "open"
    /\ fh = "open"
    /\ bound = TRUE
    /\ data = <<>>
    /\ addr = NoAddr
    /\ obj = NoValue
    /\ json_line = <<>>
    /\ buf = <<>>
    /\ disk = <<>>
    /\ exc = "none"
    /\ raisedAt = "none"
    /\ sigAt = "none"
    /\ nRecv = 0
    /\ nRejected = 0
    /\ accepted = <<>>
    /\ sinkBefore = <<>>
    /\ lastOutcome = "none"
    /\ initLog = <<"socket", "open", "bind">>
    /\ closeLog = <<>>

RecvCodec == RecvFrom(CodecDatagrams, 1)

CodecNext ==
    \/ RecvCodec
    \/ DecodeUnicodeError \/ DecodeJSONError \/ DecodeOk
    \/ Serialize \/ WriteOk \/ FlushOk \/ PrintOk \/ Except

CodecSpec == CodecInit /\ [][CodecNext]_vars

----------------------------------------------------------------------------
(* Reading the sink back *)

\* the complete lines of a byte sequence, without their line feeds
RECURSIVE LinesFrom(_, _, _)
LinesFrom(bytes, i, cur) ==
    IF i > Len(bytes) THEN <<>>
    ELSE IF bytes[i] = 10 THEN <<cur>> \o LinesFrom(bytes, i + 1, <<>>)
    ELSE LinesFrom(bytes, i + 1, Append(cur, bytes[i]))

Lines(bytes) == LinesFrom(bytes, 1, <<>>)

\* the bytes after the last line feed: a line that is not terminated
RECURSIVE Unterminated(_)
Unterminated(bytes) ==
    IF Len(bytes) = 0 \/ bytes[Len(bytes)] = 10 THEN <<>>
    ELSE Append(Unterminated(SubSeq(bytes, 1, Len(bytes) - 1)), bytes[Len(bytes)])

Range(q) == {q[k] : k \in 1..Len(q)}

\* a datagram the decoder has no value for
IllFormed(bytes) == ~Utf8Valid(bytes) \/ ~Loads(Utf8Decode(bytes)).ok

FatalSteps == {"recv", "write", "flush"}
InitSteps == <<"socket", "open", "bind">>

----------------------------------------------------------------------------
(* Claims *)

\* C1: a datagram that is not valid UTF-8 or not well-formed never takes the
\* loop to termination: a decode failure is never the exception that unwinds
\* the with statement.
C1_NoDecodeEscalation ==
    ~(pc \in ExitPcs /\ exc \in {"UnicodeDecodeError", "JSONDecodeError"})

C3_LinesAreAcceptedInOrder ==
    LET ls == Lines(disk)
    IN  /\ Len(ls) <= Len(accepted)
        /\ \A k \in 1..Len(ls) :
              /\ Utf8Valid(ls[k])
              /\ Loads(Utf8Decode(ls[k])).ok
              /\ Loads(Utf8Decode(ls[k])).val = accepted[k]
        /\ pc = "recv" => Len(ls) = Len(accepted)
        /\ Len(accepted) + nRejected <= nRecv

C3_Witness ==
    /\ pc = "recv"
    /\ Len(Lines(disk)) = 2
    /\ nRecv = 2
    /\ accepted[1] # accepted[2]

\* C4: whenever the loop is at recvfrom, every datagram received so far has
\* been either rejected or written, the writer's buffer is empty, and the
\* sink ends with a line feed and holds one line per accepted value.
C4_FlushBeforeContinue ==
    pc = "recv" =>
        /\ buf = <<>>
        /\ Unterminated(disk) = <<>>
        /\ Len(Lines(disk)) = Len(accepted)
        /\ nRecv = Len(accepted) + nRejected

C4_Witness ==
    /\ pc = "recv"
    /\ Len(accepted) = 1
    /\ nRecv = 1
    /\ disk # <<>>

\* a step taken after recvfrom, write or flush raised OSError leaves the
\* loop, receives nothing and leaves the sink as it is
NothingAfterFailureStep ==
    raisedAt \in FatalSteps =>
        /\ pc' \in ExitPcs
        /\ nRecv' = nRecv
        /\ disk' = disk

\* C5 as stated: once recvfrom, write or flush has raised OSError, the loop
\* is left, no datagram is received and the sink never changes again.
C5_NothingAfterFailure == [][NothingAfterFailureStep]_vars

\* the step in which recvfrom, write or flush raises OSError unwinds the with
\* statement; a step after it stays outside the loop, receives and accepts
\* nothing, and changes the sink only by the flush of closing f, which
\* appends the buffered line of the record in flight
FailureTerminatesStep ==
    /\ (raisedAt = "none" /\ raisedAt' \in FatalSteps)
          => (pc' \in ExitPcs /\ exc' = "OSError")
    /\ raisedAt \in FatalSteps =>
          /\ pc' \in ExitPcs
          /\ raisedAt' = raisedAt
          /\ nRecv' = nRecv
          /\ accepted' = accepted
          /\ \/ disk' = disk
             \/ /\ pc = "exit_f"
                /\ raisedAt = "flush"
                /\ buf = Utf8Encode(Dumps(accepted[Len(accepted)]) \o <<LF>>)
                /\ disk' = disk \o buf

\* C5 amended: when recvfrom, write or flush raises OSError the loop is left
\* and never re-entered, no datagram is received any more and no value is
\* accepted any more; the sink changes at most once more, when closing f
\* after a failed flush flushes the buffered line of the record in flight.
C5_FailureTerminates == [][FailureTerminatesStep]_vars

C5_Witness ==
    /\ pc = "terminated"
    /\ raisedAt = "flush"
    /\ exc = "OSError"
    /\ nRecv = 2
    /\ Len(Lines(disk)) = 2

\* C6 as stated: the socket is closed before the sink handle; the sink handle
\* is never closed while the socket is open.
C6_SocketClosedFirst ==
    /\ ~(fh = "closed" /\ sock = "open")
    /\ closeLog \in {<<>>, <<"s">>, <<"s", "f">>}

\* C6 amended: on every path that ends the loop the sink handle is flushed
\* and closed first and the socket is closed after it; the socket is never
\* closed while the sink handle is open.
C6_SinkClosedFirst ==
    /\ ~(sock = "closed" /\ fh = "open")
    /\ closeLog \in {<<>>, <<"s">>, <<"f">>, <<"f", "s">>}
    /\ closeLog = <<"s">> => fh = "unopened"
    /\ (pc = "terminated" /\ "bind" \in Range(initLog)) => closeLog = <<"f", "s">>

C6_Witness ==
    /\ pc = "terminated"
    /\ closeLog = <<"f", "s">>
    /\ nRecv > 0
    /\ disk # <<>>

C8_LinesRoundTrip ==
    /\ \A k \in 1..Len(accepted) :
          /\ LF \notin Range(Dumps(accepted[k]))
          /\ Loads(Dumps(accepted[k])) =
                Ok(accepted[k], Len(Dumps(accepted[k])) + 1)
    /\ Len(Lines(disk \o buf)) <= Len(accepted)
    /\ \A k \in 1..Len(Lines(disk \o buf)) :
          /\ Lines(disk \o buf)[k] = Utf8Encode(Dumps(accepted[k]))
          /\ Utf8Decode(Lines(disk \o buf)[k]) = Dumps(accepted[k])
    /\ Unterminated(disk \o buf) = <<>>

C8_Witness ==
    /\ pc = "print"
    /\ obj.t = "arr"
    /\ Len(obj.items) = 2
    /\ Lines(disk) = <<Utf8Encode(json_line)>>
    /\ Utf8Encode(json_line) # data

\* C9: when the function has terminated, neither the socket nor the sink
\* handle is open, whichever step raised.
C9_ReleasedOnExit ==
    pc = "terminated" =>
        /\ sock \in {"unopened", "closed"}
        /\ fh \in {"unopened", "closed"}
        /\ sock = "unopened" <=> "socket" \notin Range(initLog) \/ raisedAt = "socket"
        /\ fh = "unopened" <=> "open" \notin Range(initLog) \/ raisedAt = "open"

C9_Witness ==
    /\ pc = "terminated"
    /\ exc = "UnicodeDecodeError"
    /\ sock = "closed"
    /\ fh = "closed"

\* C10: a datagram is received or a line written only after socket, open and
\* bind succeeded, in that order, each attempted once; a step of the
\* initialization that raises takes the function to its exit without the
\* loop being entered.
C10_InitBeforeProcessing ==
    /\ Len(initLog) <= 3
    /\ initLog = SubSeq(InitSteps, 1, Len(initLog))
    /\ (pc \in LoopPcs \/ nRecv > 0 \/ buf # <<>> \/ disk # <<>>)
          => (initLog = InitSteps /\ bound /\ sock # "unopened" /\ fh # "unopened")
    /\ (raisedAt \in Range(InitSteps) \/ sigAt \in Range(InitSteps))
          => (pc \in ExitPcs /\ ~bound /\ nRecv = 0 /\ disk = <<>> /\ buf = <<>>)

C10_Witness ==
    /\ pc = "terminated"
    /\ raisedAt = "bind"
    /\ exc = "OSError"
    /\ closeLog = <<"f", "s">>
    /\ nRecv = 0

====
